---- MODULE Spec2Model ----
(***************************************************************************)
(* The guide assembly pipeline of zap2itXMLTV: authenticate, fetch one     *)
(* page of listings per three-hour window, normalise every page into the   *)
(* XMLTV document, write the document, copy it to a timestamped snapshot   *)
(* and remove old snapshots.                                               *)
(*                                                                         *)
(* The repository holds the pipeline twice: type Zap in src/main.go and    *)
(* type Guide in src/unnamed/part_000.  The variable impl says which of    *)
(* the two a run executes; every operator that differs between them has a  *)
(* Guide and a Zap version, each translated from its own file.             *)
(*                                                                         *)
(* JSON strings are sequences of one-character strings, so that the        *)
(* string functions of the code (ReplaceAll, Split, TrimLeft, Title,       *)
(* Sprintf) are computed rather than assumed.                              *)
(***************************************************************************)
EXTENDS Integers, Sequences, FiniteSets, TLC

VARIABLES
    impl,          \* "Guide" (part_000) or "Zap" (main.go)
    scenario,      \* which inputs the run draws from: see Upstream, GuideSpan
    histCfg,       \* prefs.historicalGuideDays of the config file
    pc,            \* position of BuildGuide
    failure,       \* "none", "error" (BuildGuide returned an error), "panic"
    failedAt,      \* the step that ended the run
    authResp,      \* the login response received
    token,         \* g.token / z.zapToken
    headendID,     \* g.headendID / z.headendID
    now,           \* the wall clock, in seconds
    nowRead,       \* time.Now() as read when the guide times are computed
    startTime,     \* BuildGuide's startTime
    currentTime,   \* the loop variable of BuildGuide
    endTime,       \* BuildGuide's endTime
    data,          \* the page fetched for the current window
    addChannels,   \* Zap.BuildGuide's flag
    xmlGuide,      \* g.xmlGuide / z.guideXML: Channels and Programmes
    fs,            \* the directory of the output file: name -> file
    cutoff,        \* the cutoff time computed by the cleanup
    histFile,      \* the name of the snapshot the run created
    entries,       \* the directory as the cleanup's ReadDir returned it
    removeFailed,  \* names whose os.Remove failed
    faults,        \* history: the failures the environment has answered with
    windows,       \* history: the fetches made, <<[time, token, page]>>
    outputBefore,  \* history: the output file as it was before the run
    logins,        \* history: the login calls made
    writes,        \* history: the times the output file was created
    peerPc,        \* a second invocation in the same directory: its position
    peerGuide,     \* the second invocation's document
    peerHist,      \* the name of the snapshot the second invocation created
    inTime,        \* a timestamp handed to formatDateTime / BuildXMLDate
    formatted      \* what it returned

vars == <<impl, scenario, histCfg, pc, failure, failedAt, authResp, token,
          headendID, now, nowRead, startTime, currentTime, endTime, data,
          addChannels, xmlGuide, fs, cutoff, histFile, entries, removeFailed,
          faults, windows, outputBefore, logins, writes, peerPc, peerGuide,
          peerHist, inTime, formatted>>

\* the state of the second invocation
peerVars == <<peerPc, peerGuide, peerHist>>

\* the state of a call of the timestamp formatter on its own
formatVars == <<inTime, formatted>>

---------------------------------------------------------------------------
(* Program constants.                                                      *)

defaultHistoryDays == 14
zapHistoryDays == 0
secondsInHour == 3600
secondsInHalfHour == 1800
guideHours == 336
windowHours == 3
hoursInDay == 24

secondsInDay == hoursInDay * secondsInHour

(* Bounds of the model.                                                    *)

\* windows of a run in the scenarios that explore page contents
MaxWindows == 2
\* largest configured historicalGuideDays
MaxHistDays == 1
\* seconds a file operation may take
MaxDelay == 1

Delays == 0..MaxDelay

---------------------------------------------------------------------------
(* Strings.                                                                *)

RemoveAll(s, c) == SelectSeq(s, LAMBDA x : x # c)

IndexOf(s, c) ==
    IF \E i \in 1..Len(s) : s[i] = c
    THEN CHOOSE i \in 1..Len(s) : s[i] = c /\ \A j \in 1..(i - 1) : s[j] # c
    ELSE 0

\* strings.Replace(s, c, r, 1)
ReplaceFirst(s, c, r) ==
    LET i == IndexOf(s, c)
    IN  IF i = 0 THEN s
        ELSE SubSeq(s, 1, i - 1) \o r \o SubSeq(s, i + 1, Len(s))

\* strings.Split(s, c)[0]
SplitHead(s, c) ==
    LET i == IndexOf(s, c)
    IN  IF i = 0 THEN s ELSE SubSeq(s, 1, i - 1)

\* strings.TrimLeft(s, c)
RECURSIVE TrimLeft(_, _)
TrimLeft(s, c) ==
    IF s # <<>> /\ Head(s) = c THEN TrimLeft(Tail(s), c) ELSE s

LowerLetters == <<"a", "b", "c", "n", "w">>
UpperLetters == <<"A", "B", "C", "N", "W">>
Digits == {"0", "1", "2", "3", "4", "5", "6", "7", "8", "9"}

IsLetter(c) ==
    \/ \E i \in 1..Len(LowerLetters) : c = LowerLetters[i] \/ c = UpperLetters[i]
    \/ c \in Digits
    \/ c = "_"

ToUpper(c) ==
    IF \E i \in 1..Len(LowerLetters) : LowerLetters[i] = c
    THEN UpperLetters[CHOOSE i \in 1..Len(LowerLetters) : LowerLetters[i] = c]
    ELSE c

\* strings.Title: the first letter of every word in upper case
Title(s) ==
    [i \in 1..Len(s) |->
        IF i = 1 \/ ~IsLetter(s[i - 1]) THEN ToUpper(s[i]) ELSE s[i]]

\* formatDateTime with the "T" left in
formatDateTimeKeepingT(dt) ==
    ReplaceFirst(RemoveAll(RemoveAll(dt, "-"), ":"),
                 "Z", <<" ", "+", "0", "0", "0", "0">>)

\* Zap.BuildXMLDate
BuildXMLDate(t) ==
    LET output1 == RemoveAll(t, "-")
        output2 == RemoveAll(output1, "T")
        output3 == RemoveAll(output2, ":")
    IN  ReplaceFirst(output3, "Z", <<" ", "+", "0", "0", "0", "0">>)

\* formatDateTime
formatDateTime(dt) ==
    ReplaceFirst(RemoveAll(RemoveAll(RemoveAll(dt, "-"), "T"), ":"),
                 "Z", <<" ", "+", "0", "0", "0", "0">>)

\* "http://" + strings.TrimLeft(strings.Split(thumbnail, "?")[0], "/")
thumbnailURL(thumbnail) ==
    <<"h", "t", "t", "p", ":", "/", "/">> \o TrimLeft(SplitHead(thumbnail, "?"), "/")

Unavailable == <<"U", "n", "a", "v", "a", "i", "l", "a", "b", "l", "e">>

---------------------------------------------------------------------------
(* JSON values as the decoder hands them to the code: a field of a map is  *)
(* a string, absent (or null), or a value of another type.                 *)

JStr(s) == [t |-> "string", s |-> s]
JAbsent == [t |-> "absent", s |-> <<>>]
JNum == [t |-> "number", s |-> <<>>]

\* v, ok := m[key].(string)
IsString(v) == v.t = "string"

---------------------------------------------------------------------------
(* The configuration.                                                      *)

\* cfg.Section("prefs").Key("lang"): part_000 line 151; the -l flag, main.go
\* lines 554 and 568
Language(i) == IF i = "Guide" THEN "en-us" ELSE "en"

NotConfigured == [set |-> FALSE, days |-> 0]
Configured(d) == [set |-> TRUE, days |-> d]

\* Key("historicalGuideDays").MustInt(default)
HistoricalDays(i, cfg) ==
    IF cfg.set THEN cfg.days
    ELSE IF i = "Guide" THEN defaultHistoryDays ELSE zapHistoryDays

---------------------------------------------------------------------------
(* The document.                                                           *)

EmptyGuide == [Channels |-> <<>>, Programmes |-> <<>>]

\* Guide.processChannels, lines 342 to 354: the Channel of a record whose
\* channelId, channelNo and callSign are strings
GuideChannel(c) ==
    [ID |-> c.channelId.s,
     DisplayName |-> <<c.channelNo.s \o <<" ">> \o c.callSign.s,
                       c.channelNo.s, c.callSign.s>>,
     Icon |-> IF IsString(c.thumbnail)
              THEN <<[Src |-> thumbnailURL(c.thumbnail.s)]>>
              ELSE <<>>]

\* the fields Zap.BuildChannelXML asserts to be strings
ZapChannelFields(c) ==
    <<c.channelId, c.channelNo, c.callSign, c.affiliateName, c.thumbnail>>

\* Zap.BuildChannelXML, for a record that passes every assertion
BuildChannelXML(c) ==
    [ID |-> c.channelId.s,
     DisplayName |-> <<c.channelNo.s \o <<" ">> \o c.callSign.s,
                       c.channelNo.s, c.callSign.s, Title(c.affiliateName.s)>>,
     Icon |-> <<[Src |-> thumbnailURL(c.thumbnail.s)]>>]

\* buildProgramme with a shortDesc that is a string taken as it is, the
\* empty one included
buildProgrammeEmptyDesc(event, channelID, lang) ==
    IF ~IsString(event.startTime) THEN [ok |-> FALSE, err |-> "startTime"]
    ELSE IF ~IsString(event.endTime) THEN [ok |-> FALSE, err |-> "endTime"]
    ELSE IF ~event.programIsMap THEN [ok |-> FALSE, err |-> "program"]
    ELSE IF ~IsString(event.title) THEN [ok |-> FALSE, err |-> "title"]
    ELSE [ok |-> TRUE,
          prog |->
            [Start |-> formatDateTime(event.startTime.s),
             Stop |-> formatDateTime(event.endTime.s),
             Channel |-> channelID,
             Title |-> <<[Lang |-> lang, Text |-> event.title.s]>>,
             SubTitle |->
                IF IsString(event.episodeTitle) /\ event.episodeTitle.s # <<>>
                THEN <<[Lang |-> lang, Text |-> event.episodeTitle.s]>>
                ELSE <<>>,
             Desc |->
                [Lang |-> lang,
                 Text |-> IF IsString(event.shortDesc)
                          THEN event.shortDesc.s
                          ELSE Unavailable]]]

\* Guide.buildProgramme / Zap.BuildEventXML: ok is FALSE where the code
\* returns an error
buildProgramme(event, channelID, lang) ==
    IF ~IsString(event.startTime) THEN [ok |-> FALSE, err |-> "startTime"]
    ELSE IF ~IsString(event.endTime) THEN [ok |-> FALSE, err |-> "endTime"]
    ELSE IF ~event.programIsMap THEN [ok |-> FALSE, err |-> "program"]
    ELSE IF ~IsString(event.title) THEN [ok |-> FALSE, err |-> "title"]
    ELSE [ok |-> TRUE,
          prog |->
            [Start |-> formatDateTime(event.startTime.s),
             Stop |-> formatDateTime(event.endTime.s),
             Channel |-> channelID,
             Title |-> <<[Lang |-> lang, Text |-> event.title.s]>>,
             SubTitle |->
                IF IsString(event.episodeTitle) /\ event.episodeTitle.s # <<>>
                THEN <<[Lang |-> lang, Text |-> event.episodeTitle.s]>>
                ELSE <<>>,
             Desc |->
                [Lang |-> lang,
                 Text |-> IF IsString(event.shortDesc) /\ event.shortDesc.s # <<>>
                          THEN event.shortDesc.s
                          ELSE Unavailable]]]

\* Guide.processChannels, the loop of lines 336 to 357: a record that is no
\* map is skipped; a failed type assertion panics
RECURSIVE GuideChannelLoop(_, _)
GuideChannelLoop(chans, cs) ==
    IF cs = <<>> THEN [status |-> "ok", Channels |-> chans]
    ELSE LET c == Head(cs)
         IN  IF ~c.isMap THEN GuideChannelLoop(chans, Tail(cs))
             ELSE IF \/ ~IsString(c.channelId)
                     \/ ~IsString(c.channelNo)
                     \/ ~IsString(c.callSign)
                  THEN [status |-> "panic", Channels |-> chans]
                  ELSE GuideChannelLoop(Append(chans, GuideChannel(c)), Tail(cs))

processChannels(chans, page) ==
    IF ~page.channelsIsArr THEN [status |-> "error", Channels |-> chans]
    ELSE GuideChannelLoop(chans, page.channels)

\* Zap.AddChannelsToGuide, the loop of lines 360 to 367
RECURSIVE ZapChannelLoop(_, _)
ZapChannelLoop(chans, cs) ==
    IF cs = <<>> THEN [status |-> "ok", Channels |-> chans]
    ELSE LET c == Head(cs)
         IN  IF \/ ~c.isMap
                \/ \E k \in 1..Len(ZapChannelFields(c)) :
                       ~IsString(ZapChannelFields(c)[k])
             THEN [status |-> "panic", Channels |-> chans]
             ELSE ZapChannelLoop(Append(chans, BuildChannelXML(c)), Tail(cs))

AddChannelsToGuide(chans, page) ==
    IF ~page.channelsIsArr THEN [status |-> "error", Channels |-> chans]
    ELSE ZapChannelLoop(chans, page.channels)

\* GuideEventLoop with a programme that the list already holds left out
RECURSIVE GuideEventLoopDeduplicating(_, _, _)
GuideEventLoopDeduplicating(progs, es, channelID) ==
    IF es = <<>> THEN progs
    ELSE LET e == Head(es)
             b == buildProgramme(e, channelID, Language("Guide"))
         IN  IF ~e.isMap \/ ~b.ok \/ (\E i \in 1..Len(progs) : progs[i] = b.prog)
             THEN GuideEventLoopDeduplicating(progs, Tail(es), channelID)
             ELSE GuideEventLoopDeduplicating(Append(progs, b.prog), Tail(es),
                                              channelID)

\* Guide.processProgrammes, the loop of lines 385 to 398: an event that is
\* no map or that buildProgramme rejects is skipped
RECURSIVE GuideEventLoop(_, _, _)
GuideEventLoop(progs, es, channelID) ==
    IF es = <<>> THEN progs
    ELSE LET e == Head(es)
             b == buildProgramme(e, channelID, Language("Guide"))
         IN  IF ~e.isMap \/ ~b.ok
             THEN GuideEventLoop(progs, Tail(es), channelID)
             ELSE GuideEventLoop(Append(progs, b.prog), Tail(es), channelID)

\* Guide.processProgrammes, the loop of lines 369 to 399
RECURSIVE GuideProgrammeLoop(_, _)
GuideProgrammeLoop(progs, cs) ==
    IF cs = <<>> THEN progs
    ELSE LET c == Head(cs)
         IN  IF ~c.isMap \/ ~IsString(c.channelId) \/ ~c.eventsIsArr
             THEN GuideProgrammeLoop(progs, Tail(cs))
             ELSE GuideProgrammeLoop(
                      GuideEventLoop(progs, c.events, c.channelId.s), Tail(cs))

processProgrammes(progs, page) ==
    IF ~page.channelsIsArr THEN [status |-> "error", Programmes |-> progs]
    ELSE [status |-> "ok", Programmes |-> GuideProgrammeLoop(progs, page.channels)]

\* Zap.AddEventsToGuide, the loop of lines 401 to 408: an event that is no
\* map panics, an event BuildEventXML rejects ends the function with its error
RECURSIVE ZapEventLoop(_, _, _)
ZapEventLoop(progs, es, channelID) ==
    IF es = <<>> THEN [status |-> "ok", Programmes |-> progs]
    ELSE LET e == Head(es)
             b == buildProgramme(e, channelID, Language("Zap"))
         IN  IF ~e.isMap THEN [status |-> "panic", Programmes |-> progs]
             ELSE IF ~b.ok THEN [status |-> "error", Programmes |-> progs]
             ELSE ZapEventLoop(Append(progs, b.prog), Tail(es), channelID)

\* Zap.AddEventsToGuide, the loop of lines 394 to 409
RECURSIVE ZapProgrammeLoop(_, _)
ZapProgrammeLoop(progs, cs) ==
    IF cs = <<>> THEN [status |-> "ok", Programmes |-> progs]
    ELSE LET c == Head(cs)
         IN  IF ~c.isMap \/ ~IsString(c.channelId)
             THEN [status |-> "panic", Programmes |-> progs]
             ELSE IF ~c.eventsIsArr THEN ZapProgrammeLoop(progs, Tail(cs))
             ELSE LET r == ZapEventLoop(progs, c.events, c.channelId.s)
                  IN  IF r.status # "ok" THEN r
                      ELSE ZapProgrammeLoop(r.Programmes, Tail(cs))

AddEventsToGuide(progs, page) ==
    IF ~page.channelsIsArr THEN [status |-> "error", Programmes |-> progs]
    ELSE ZapProgrammeLoop(progs, page.channels)

\* The body of BuildGuide's loop after the fetch: part_000 lines 301 to 309,
\* main.go lines 321 to 329
NormalizeGuide(guide, page) ==
    LET ch == IF Len(guide.Channels) = 0
              THEN processChannels(guide.Channels, page)
              ELSE [status |-> "ok", Channels |-> guide.Channels]
        pr == processProgrammes(guide.Programmes, page)
    IN  IF ch.status # "ok"
        THEN [status |-> ch.status, addChannels |-> TRUE,
              guide |-> [guide EXCEPT !.Channels = ch.Channels]]
        ELSE [status |-> pr.status, addChannels |-> TRUE,
              guide |-> [Channels |-> ch.Channels, Programmes |-> pr.Programmes]]

NormalizeZap(guide, flag, page) ==
    LET ch == IF flag
              THEN AddChannelsToGuide(guide.Channels, page)
              ELSE [status |-> "ok", Channels |-> guide.Channels]
        pr == AddEventsToGuide(guide.Programmes, page)
    IN  IF ch.status # "ok"
        THEN [status |-> ch.status, addChannels |-> flag,
              guide |-> [guide EXCEPT !.Channels = ch.Channels]]
        ELSE [status |-> pr.status, addChannels |-> FALSE,
              guide |-> [Channels |-> ch.Channels, Programmes |-> pr.Programmes]]

\* GetGuideTimes without the rounding to the half hour
GetGuideTimesUnrounded(t, span) ==
    LET start == t - secondsInDay
    IN  [startTime |-> start, endTime |-> start + span * secondsInHour]

\* Zap.GetGuideTimes; part_000 lines 291 to 293
GetGuideTimes(t, span) ==
    LET dayBack == t - secondsInDay
        start == dayBack - (dayBack % secondsInHalfHour)
    IN  [startTime |-> start, endTime |-> start + span * secondsInHour]

---------------------------------------------------------------------------
(* The files of the output directory.                                      *)

\* a file name: stem, then "." and a timestamp unless stamp is 0, then "."
\* and the extension
Name(stem, stamp, ext) == [stem |-> stem, stamp |-> stamp, ext |-> ext]

\* the -o flag's default, xmlguide.xmltv
outputFile == Name("xmlguide", 0, "xmltv")

\* the output path of a second invocation in the same directory
peerFile == Name("other", 0, "xmltv")

\* strings.TrimSuffix(outputFile, ".xmltv") + timestamp + ".xmltv"
HistFileName(out, t) == Name(out.stem, t, "xmltv")

\* strings.HasSuffix(name, ".xmltv")
HasGuideSuffix(name) == name.ext = "xmltv"

GuideContent(guide) == [kind |-> "guide", guide |-> guide]
PartialContent == [kind |-> "partial", guide |-> EmptyGuide]
OtherContent == [kind |-> "other", guide |-> EmptyGuide]

\* a file as os.Create leaves it
NewFile(t, content) ==
    [isDir |-> FALSE, modTime |-> t, content |-> content,
     removable |-> TRUE, statOk |-> TRUE]

OldFile(t, isDir, removable, statOk) ==
    [isDir |-> isDir, modTime |-> t, content |-> OtherContent,
     removable |-> removable, statOk |-> statOk]

\* f with name n added or replaced
PutFile(f, n, file) ==
    [m \in DOMAIN f \cup {n} |-> IF m = n THEN file ELSE f[m]]

\* what the cleanup removes: part_000 lines 507 to 522, main.go lines 536
\* to 547
ShouldRemove(f, n, cut) ==
    /\ ~f[n].isDir
    /\ HasGuideSuffix(n)
    /\ f[n].statOk
    /\ f[n].modTime < cut

Removed(f, cut) == {n \in DOMAIN f : ShouldRemove(f, n, cut) /\ f[n].removable}

RemoveFails(f, cut) == {n \in DOMAIN f : ShouldRemove(f, n, cut) /\ ~f[n].removable}

\* time.Now().AddDate(0, 0, -days), time.Now().Add(-days * 24h): days of 24
\* hours (no daylight-saving change inside the retention window)
CutoffTime(t, days) == t - days * secondsInDay

---------------------------------------------------------------------------
(* Inputs.                                                                 *)

T1 == <<"2", "0", "2", "4", "-", "0", "6", "-", "0", "1", "T",
        "1", "0", ":", "0", "0", ":", "0", "0", "Z">>
T2 == <<"2", "0", "2", "4", "-", "0", "6", "-", "0", "1", "T",
        "1", "0", ":", "3", "0", ":", "0", "0", "Z">>
T3 == <<"2", "0", "2", "4", "-", "0", "6", "-", "0", "1", "T",
        "1", "1", ":", "0", "0", ":", "0", "0", "Z">>

\* a timestamp of the shape YYYY-MM-DDThh:mm:ssZ
Stamp(y, mo, d, h, mi, sec) ==
    y \o <<"-">> \o mo \o <<"-">> \o d \o <<"T">> \o h \o <<":">> \o mi
      \o <<":">> \o sec \o <<"Z">>

\* the timestamps the formatter is called with on its own
Timestamps ==
    {Stamp(y, mo, d, h, mi, sec) :
        y \in {<<"2", "0", "2", "4">>, <<"1", "9", "9", "9">>},
        mo \in {<<"0", "1">>, <<"1", "2">>},
        d \in {<<"0", "2">>, <<"3", "1">>},
        h \in {<<"1", "5">>, <<"0", "0">>, <<"2", "3">>},
        mi \in {<<"0", "4">>, <<"5", "9">>},
        sec \in {<<"0", "5">>, <<"0", "0">>}}

Event(start, end, title, episodeTitle, shortDesc) ==
    [isMap |-> TRUE, startTime |-> start, endTime |-> end, programIsMap |-> TRUE,
     title |-> title, episodeTitle |-> episodeTitle, shortDesc |-> shortDesc]

evNews == Event(JStr(T1), JStr(T2), JStr(<<"N", "e", "w", "s">>), JAbsent, JAbsent)
evShow == Event(JStr(T2), JStr(T3), JStr(<<"S", "h", "o", "w">>),
                JStr(<<"E", "1">>), JStr(<<"a", " ", "b">>))
evNoStart == [evNews EXCEPT !.startTime = JAbsent]
evNumEnd == [evNews EXCEPT !.endTime = JNum]
evNoProgram == [evNews EXCEPT !.programIsMap = FALSE]
evNoTitle == [evNews EXCEPT !.title = JAbsent]
evNotMap == [evNews EXCEPT !.isMap = FALSE]
evNumDesc == [evShow EXCEPT !.shortDesc = JNum]
evEmptyDesc == [evShow EXCEPT !.shortDesc = JStr(<<>>)]

MalformedEvents == {evNoStart, evNumEnd, evNoProgram, evNoTitle}

ID51 == <<"5", ".", "1">>
ID71 == <<"7", ".", "1">>

ChannelRec(id, no, callSign, affiliate, thumbnail, events) ==
    [isMap |-> TRUE, channelId |-> id, channelNo |-> no, callSign |-> callSign,
     affiliateName |-> affiliate, thumbnail |-> thumbnail,
     eventsIsArr |-> TRUE, events |-> events]

chA(events) ==
    ChannelRec(JStr(ID51), JStr(<<"5">>), JStr(<<"W", "A", "B", "C">>),
               JStr(<<"a", "b", "c", " ", "n", "w">>),
               JStr(<<"/", "/", "z", "/", "a", "?", "w", "=", "5">>), events)
chB(events) ==
    ChannelRec(JStr(ID71), JStr(<<"7">>), JStr(<<"W", "N", "B", "C">>),
               JStr(<<"n", "b", "c">>), JStr(<<"z", "/", "b">>), events)
\* the record of the specification's scenario A: no thumbnail, no affiliate
chPlain(events) ==
    ChannelRec(JStr(ID51), JStr(<<"5">>), JStr(<<"W", "A", "B", "C">>),
               JAbsent, JAbsent, events)
chNoId == [chA(<<evNews>>) EXCEPT !.channelId = JAbsent]
chNumNo == [chA(<<evNews>>) EXCEPT !.channelNo = JNum]
chNoCallSign == [chA(<<evNews>>) EXCEPT !.callSign = JAbsent]
chNotMap == [chA(<<>>) EXCEPT !.isMap = FALSE]
chNoEvents == [chA(<<>>) EXCEPT !.eventsIsArr = FALSE]

Page(channels) == [channelsIsArr |-> TRUE, channels |-> channels]
NoChannelsPage == [channelsIsArr |-> FALSE, channels |-> <<>>]
EmptyPage == Page(<<>>)
PlainPage == Page(<<chA(<<evNews>>)>>)

Pages ==
    {NoChannelsPage, EmptyPage, PlainPage,
     Page(<<chA(<<evNews, evShow>>), chB(<<evShow>>)>>),
     Page(<<chA(<<evNews>>), chA(<<evShow>>)>>),
     Page(<<chB(<<evNews>>)>>),
     Page(<<chPlain(<<evNews>>)>>),
     Page(<<chNoId, chA(<<evNews>>)>>),
     Page(<<chNumNo, chA(<<evNews>>)>>),
     Page(<<chNoCallSign, chA(<<evNews>>)>>),
     Page(<<chNotMap, chA(<<evNews>>)>>),
     Page(<<chNoEvents, chB(<<evShow>>)>>),
     Page(<<chA(<<evNews, evNotMap, evShow>>)>>),
     Page(<<chA(<<evNumDesc, evEmptyDesc, evShow>>)>>)}
    \cup {Page(<<chA(<<evNews, e, evShow>>)>>) : e \in MalformedEvents}

\* the pages the upstream may answer with
Upstream(sc) ==
    CASE sc = "pages" -> Pages
      [] sc = "rotation" -> {PlainPage}
      [] sc = "windows" -> {EmptyPage}
      [] sc = "pair" -> {PlainPage}

\* the pages the upstream answers the second invocation with (another lineup)
PeerPages == {Page(<<chB(<<evShow>>)>>)}

\* the hours of guide a run asks for: guideHours, shortened where the run
\* explores page contents
GuideSpan(sc) == IF sc = "windows" THEN guideHours ELSE windowHours * MaxWindows

\* the seconds a file operation may take
FileDelays(sc) == IF sc \in {"rotation", "pair"} THEN Delays ELSE {0}

AuthResponses == {"netError", "badJSON", "noToken", "noProperties", "noHeadend", "ok"}

FetchFailures == {"netError", "badJSON"}

\* 2024-06-01T10:00:00Z, a multiple of secondsInHalfHour
BaseTime == 954020 * secondsInHalfHour

\* the directory before the run, at time t
InitialFiles(t, withOutput) ==
    LET old == [n \in {Name("xmlguide", 1, "xmltv"), Name("xmlguide", 2, "xmltv"),
                       Name("xmlguide", 3, "xmltv"), Name("xmlguide", 4, "xmltv"),
                       Name("notes", 0, "txt"), Name("archive", 0, "xmltv"),
                       Name("locked", 0, "xmltv"), Name("gone", 0, "xmltv")} |->
                CASE n.stamp = 1 -> OldFile(t - 15 * secondsInDay, FALSE, TRUE, TRUE)
                  [] n.stamp = 2 -> OldFile(t - 2 * secondsInDay, FALSE, TRUE, TRUE)
                  [] n.stamp = 3 -> OldFile(t - secondsInDay, FALSE, TRUE, TRUE)
                  [] n.stamp = 4 -> OldFile(t - secondsInHour, FALSE, TRUE, TRUE)
                  [] n.stem = "notes" -> OldFile(t - 15 * secondsInDay, FALSE, TRUE, TRUE)
                  [] n.stem = "archive" -> OldFile(t - 15 * secondsInDay, TRUE, TRUE, TRUE)
                  [] n.stem = "locked" -> OldFile(t - 15 * secondsInDay, FALSE, FALSE, TRUE)
                  [] n.stem = "gone" -> OldFile(t - 15 * secondsInDay, FALSE, TRUE, FALSE)]
    IN  IF withOutput
        THEN PutFile(old, outputFile, OldFile(t - secondsInDay, FALSE, TRUE, TRUE))
        ELSE old

\* the same with the output of an earlier run of the second invocation,
\* age seconds old
WithPeerOutput(f, t, age) == PutFile(f, peerFile, OldFile(t - age, FALSE, TRUE, TRUE))

\* the output file, or its absence
FileAt(f, n) == IF n \in DOMAIN f THEN <<f[n]>> ELSE <<>>

---------------------------------------------------------------------------
(* The initial states: the state after NewGuide / GuideScrape.             *)

Impls == {"Guide", "Zap"}

InitRun(sc, cfgs, times) ==
    /\ impl \in Impls
    /\ scenario = sc
    /\ histCfg \in cfgs
    /\ now \in times
    /\ \E withOutput \in BOOLEAN :
          IF sc = "pair"
          THEN \/ fs = InitialFiles(now, withOutput)
               \/ \E age \in {secondsInHour, 15 * secondsInDay} :
                     fs = WithPeerOutput(InitialFiles(now, withOutput), now, age)
          ELSE fs = InitialFiles(now, withOutput)
    /\ outputBefore = FileAt(fs, outputFile)
    /\ pc = "Init"
    /\ failure = "none"
    /\ failedAt = "none"
    /\ authResp = "none"
    /\ token = ""
    /\ headendID = ""
    /\ nowRead = 0
    /\ startTime = 0
    /\ currentTime = 0
    /\ endTime = 0
    /\ data = NoChannelsPage
    /\ addChannels = TRUE
    /\ xmlGuide = EmptyGuide
    /\ cutoff = 0
    /\ histFile = outputFile
    /\ entries = fs
    /\ removeFailed = {}
    /\ faults = {}
    /\ windows = <<>>
    /\ logins = 0
    /\ writes = 0
    /\ peerPc = IF sc = "pair" THEN "Init" ELSE "Off"
    /\ peerGuide = EmptyGuide
    /\ peerHist = peerFile
    /\ inTime \in IF sc = "format" THEN Timestamps ELSE {<<>>}
    /\ formatted = <<>>

Init == InitRun("pages", {NotConfigured}, {BaseTime})

InitRotation ==
    InitRun("rotation",
            {NotConfigured} \cup {Configured(d) : d \in 0..MaxHistDays},
            {BaseTime})

InitPair ==
    InitRun("pair",
            {NotConfigured} \cup {Configured(d) : d \in 0..MaxHistDays},
            {BaseTime})

InitFormat == InitRun("format", {NotConfigured}, {BaseTime})

InitWindows ==
    InitRun("windows", {NotConfigured},
            {BaseTime + d : d \in {0, 1, secondsInHalfHour - 1, secondsInHour + 7}})

---------------------------------------------------------------------------
(* The steps of BuildGuide.                                                *)

\* the run ends: BuildGuide returns an error ("error") or a type assertion
\* panics ("panic"); either way the process exits without reaching Done
Fail(kind, step) ==
    /\ pc' = "Failed"
    /\ failure' = kind
    /\ failedAt' = step

\* Guide.authenticate
authenticate(r) ==
    CASE r \in {"netError", "badJSON", "noToken"} ->
            [status |-> "error", token |-> "", headendID |-> ""]
      [] r \in {"noProperties", "noHeadend"} ->
            [status |-> "ok", token |-> "tok", headendID |-> ""]
      [] OTHER -> [status |-> "ok", token |-> "tok", headendID |-> "hd"]

\* Zap.Authenticate: the assertions of lines 92 to 94 panic
ZapAuthenticate(r) ==
    CASE r \in {"netError", "badJSON"} ->
            [status |-> "error", token |-> "", headendID |-> ""]
      [] r = "noToken" -> [status |-> "panic", token |-> "", headendID |-> ""]
      [] r \in {"noProperties", "noHeadend"} ->
            [status |-> "panic", token |-> "tok", headendID |-> ""]
      [] OTHER -> [status |-> "ok", token |-> "tok", headendID |-> "hd"]

\* BuildGuide up to the loop: authenticate, initializeGuide, the guide times
Authenticate ==
    /\ pc = "Init"
    /\ \E r \in AuthResponses :
        LET a == IF impl = "Guide" THEN authenticate(r) ELSE ZapAuthenticate(r)
            t == GetGuideTimes(now, GuideSpan(scenario))
        IN  /\ authResp' = r
            /\ faults' = IF r = "ok" THEN faults ELSE faults \cup {r}
            /\ token' = a.token
            /\ headendID' = a.headendID
            /\ IF a.status = "ok"
               THEN /\ xmlGuide' = EmptyGuide
                    /\ nowRead' = now
                    /\ startTime' = t.startTime
                    /\ currentTime' = t.startTime
                    /\ endTime' = t.endTime
                    /\ pc' = IF t.startTime < t.endTime
                             THEN "FetchingWindow" ELSE "Serializing"
                    /\ UNCHANGED <<failure, failedAt>>
               ELSE /\ Fail(a.status, "auth")
                    /\ UNCHANGED <<xmlGuide, nowRead, startTime, currentTime, endTime>>
    /\ logins' = logins + 1
    /\ UNCHANGED writes
    /\ UNCHANGED <<peerVars, formatVars>>
    /\ UNCHANGED <<impl, scenario, histCfg, now, data, addChannels, fs, cutoff,
                   histFile, entries, removeFailed, windows, outputBefore>>

\* the request of Guide.fetchGuideData / Zap.BuildDataRequest and its answer
Request(t, tok, ok, page) ==
    [time |-> t, timespan |-> windowHours, token |-> tok, ok |-> ok, page |-> page]

\* FetchGuideData with the error of the fetch dropped: the loop ends and the
\* guide collected so far is written
FetchGuideDataErrorDropped ==
    /\ pc = "FetchingWindow"
    /\ \/ \E page \in Upstream(scenario) :
            /\ data' = page
            /\ windows' = Append(windows, Request(currentTime, token, TRUE, page))
            /\ pc' = "Normalizing"
            /\ UNCHANGED faults
       \/ \E r \in FetchFailures :
            /\ windows' = Append(windows,
                                  Request(currentTime, token, FALSE, NoChannelsPage))
            /\ faults' = faults \cup {"fetch"}
            /\ pc' = "Serializing"
            /\ UNCHANGED data
    /\ UNCHANGED <<logins, writes>>
    /\ UNCHANGED <<peerVars, formatVars>>
    /\ UNCHANGED <<impl, scenario, histCfg, failure, failedAt, authResp, token,
                   headendID, now, nowRead, startTime, currentTime, endTime,
                   addChannels, xmlGuide, fs, cutoff, histFile, entries,
                   removeFailed, outputBefore>>

\* Guide.fetchGuideData / Zap.GetData for the window at currentTime
FetchGuideData ==
    /\ pc = "FetchingWindow"
    /\ \/ \E page \in Upstream(scenario) :
            /\ data' = page
            /\ windows' = Append(windows, Request(currentTime, token, TRUE, page))
            /\ pc' = "Normalizing"
            /\ UNCHANGED <<failure, failedAt, faults>>
       \/ \E r \in FetchFailures :
            /\ windows' = Append(windows,
                                  Request(currentTime, token, FALSE, NoChannelsPage))
            /\ faults' = faults \cup {"fetch"}
            /\ Fail("error", "fetch")
            /\ UNCHANGED data
    /\ UNCHANGED <<logins, writes>>
    /\ UNCHANGED <<peerVars, formatVars>>
    /\ UNCHANGED <<impl, scenario, histCfg, authResp, token, headendID, now,
                   nowRead, startTime, currentTime, endTime, addChannels,
                   xmlGuide, fs, cutoff, histFile, entries, removeFailed,
                   outputBefore>>

\* the rest of the loop body, and the loop's step and test
NormalizeWindow ==
    /\ pc = "Normalizing"
    /\ LET r == IF impl = "Guide" THEN NormalizeGuide(xmlGuide, data)
                ELSE NormalizeZap(xmlGuide, addChannels, data)
           next == currentTime + windowHours * secondsInHour
       IN  /\ xmlGuide' = r.guide
           /\ addChannels' = r.addChannels
           /\ IF r.status = "ok"
              THEN /\ currentTime' = next
                   /\ pc' = IF next < endTime THEN "FetchingWindow" ELSE "Serializing"
                   /\ UNCHANGED <<failure, failedAt>>
              ELSE /\ Fail(r.status, "normalize")
                   /\ UNCHANGED currentTime
    /\ UNCHANGED <<logins, writes>>
    /\ UNCHANGED <<peerVars, formatVars>>
    /\ UNCHANGED <<impl, scenario, histCfg, authResp, token, headendID, now,
                   nowRead, startTime, endTime, data, fs, cutoff, histFile,
                   entries, removeFailed, faults, windows, outputBefore>>

\* WriteGuide with the error of Encode dropped: the rotation follows a
\* write that failed
WriteGuideErrorDropped ==
    /\ pc = "Serializing"
    /\ \E d \in FileDelays(scenario), outcome \in {"ok", "createFails", "encodeFails"} :
        /\ now' = now + d
        /\ faults' = IF outcome = "ok" THEN faults ELSE faults \cup {outcome}
        /\ writes' = IF outcome = "createFails" THEN writes ELSE writes + 1
        /\ CASE outcome = "ok" ->
                    /\ fs' = PutFile(fs, outputFile, NewFile(now', GuideContent(xmlGuide)))
                    /\ pc' = "Rotating"
                    /\ UNCHANGED <<failure, failedAt>>
             [] outcome = "createFails" ->
                    /\ Fail("error", "write")
                    /\ UNCHANGED fs
             [] outcome = "encodeFails" ->
                    /\ fs' = PutFile(fs, outputFile, NewFile(now', PartialContent))
                    /\ pc' = "Rotating"
                    /\ UNCHANGED <<failure, failedAt>>
    /\ UNCHANGED logins
    /\ UNCHANGED <<peerVars, formatVars>>
    /\ UNCHANGED <<impl, scenario, histCfg, authResp, token, headendID, nowRead,
                   startTime, currentTime, endTime, data, addChannels, xmlGuide,
                   cutoff, histFile, entries, removeFailed, windows, outputBefore>>

\* Guide.writeGuide / Zap.WriteGuide: os.Create, then Encode
WriteGuide ==
    /\ pc = "Serializing"
    /\ \E d \in FileDelays(scenario), outcome \in {"ok", "createFails", "encodeFails"} :
        /\ now' = now + d
        /\ faults' = IF outcome = "ok" THEN faults ELSE faults \cup {outcome}
        /\ writes' = IF outcome = "createFails" THEN writes ELSE writes + 1
        /\ CASE outcome = "ok" ->
                    /\ fs' = PutFile(fs, outputFile, NewFile(now', GuideContent(xmlGuide)))
                    /\ pc' = "Rotating"
                    /\ UNCHANGED <<failure, failedAt>>
             [] outcome = "createFails" ->
                    /\ Fail("error", "write")
                    /\ UNCHANGED fs
             [] outcome = "encodeFails" ->
                    /\ fs' = PutFile(fs, outputFile, NewFile(now', PartialContent))
                    /\ Fail("error", "write")
    /\ UNCHANGED logins
    /\ UNCHANGED <<peerVars, formatVars>>
    /\ UNCHANGED <<impl, scenario, histCfg, authResp, token, headendID, nowRead,
                   startTime, currentTime, endTime, data, addChannels, xmlGuide,
                   cutoff, histFile, entries, removeFailed, windows, outputBefore>>

\* Guide.manageHistoricalFiles up to copyFile / Zap.CopyHistorical
CopyHistorical ==
    /\ pc = "Rotating"
    /\ \E d \in FileDelays(scenario), outcome \in {"ok", "openFails", "copyFails"} :
        LET hist == HistFileName(outputFile, now)
        IN  /\ now' = now + d
            /\ histFile' = hist
            /\ faults' = IF outcome = "ok" THEN faults ELSE faults \cup {outcome}
            /\ CASE outcome = "ok" /\ outputFile \in DOMAIN fs ->
                        /\ fs' = PutFile(fs, hist, NewFile(now', fs[outputFile].content))
                        /\ pc' = "Cleaning"
                        /\ UNCHANGED <<failure, failedAt>>
                 [] outcome = "copyFails" /\ outputFile \in DOMAIN fs ->
                        /\ fs' = PutFile(fs, hist, NewFile(now', PartialContent))
                        /\ Fail("error", "copy")
                 [] OTHER ->
                        /\ Fail("error", "copy")
                        /\ UNCHANGED fs
    /\ UNCHANGED <<logins, writes>>
    /\ UNCHANGED <<peerVars, formatVars>>
    /\ UNCHANGED <<impl, scenario, histCfg, authResp, token, headendID, nowRead,
                   startTime, currentTime, endTime, data, addChannels, xmlGuide,
                   cutoff, entries, removeFailed, windows, outputBefore>>

\* CleanHistorical with the error of ReadDir logged instead of returned
CleanHistoricalErrorLogged ==
    /\ pc = "Cleaning"
    /\ \E d \in FileDelays(scenario), readDirOk \in BOOLEAN :
        LET cut == CutoffTime(now + d, HistoricalDays(impl, histCfg))
        IN  /\ now' = now + d
            /\ cutoff' = cut
            /\ pc' = "Done"
            /\ IF readDirOk
               THEN /\ entries' = fs
                    /\ fs' = [n \in DOMAIN fs \ Removed(fs, cut) |-> fs[n]]
                    /\ removeFailed' = RemoveFails(fs, cut)
                    /\ faults' = IF RemoveFails(fs, cut) = {} THEN faults
                                  ELSE faults \cup {"removeFails"}
               ELSE /\ faults' = faults \cup {"readDirFails"}
                    /\ UNCHANGED <<fs, entries, removeFailed>>
    /\ UNCHANGED <<logins, writes>>
    /\ UNCHANGED <<peerVars, formatVars>>
    /\ UNCHANGED <<impl, scenario, histCfg, failure, failedAt, authResp, token,
                   headendID, nowRead, startTime, currentTime, endTime, data,
                   addChannels, xmlGuide, histFile, windows, outputBefore>>

\* Guide.cleanHistoricalFiles / Zap.CleanHistorical
CleanHistorical ==
    /\ pc = "Cleaning"
    /\ \E d \in FileDelays(scenario), readDirOk \in BOOLEAN :
        LET cut == CutoffTime(now + d, HistoricalDays(impl, histCfg))
        IN  /\ now' = now + d
            /\ cutoff' = cut
            /\ IF readDirOk
               THEN /\ entries' = fs
                    /\ fs' = [n \in DOMAIN fs \ Removed(fs, cut) |-> fs[n]]
                    /\ removeFailed' = RemoveFails(fs, cut)
                    /\ faults' = IF RemoveFails(fs, cut) = {} THEN faults
                                  ELSE faults \cup {"removeFails"}
                    /\ pc' = "Done"
                    /\ UNCHANGED <<failure, failedAt>>
               ELSE /\ faults' = faults \cup {"readDirFails"}
                    /\ Fail("error", "readdir")
                    /\ UNCHANGED <<fs, entries, removeFailed>>
    /\ UNCHANGED <<logins, writes>>
    /\ UNCHANGED <<peerVars, formatVars>>
    /\ UNCHANGED <<impl, scenario, histCfg, authResp, token, headendID, nowRead,
                   startTime, currentTime, endTime, data, addChannels, xmlGuide,
                   histFile, windows, outputBefore>>

(* A second invocation of the program, with another output path in the     *)
(* same directory and the same configuration.  What it does before it       *)
(* writes touches its own memory only, so that part is one step.           *)

\* the loop of BuildGuide over n windows that all answer with page
RECURSIVE PeerLoop(_, _, _, _)
PeerLoop(guide, flag, n, page) ==
    IF n = 0 THEN [status |-> "ok", guide |-> guide]
    ELSE LET r == IF impl = "Guide" THEN NormalizeGuide(guide, page)
                  ELSE NormalizeZap(guide, flag, page)
         IN  IF r.status # "ok" THEN [status |-> r.status, guide |-> r.guide]
             ELSE PeerLoop(r.guide, r.addChannels, n - 1, page)

\* BuildGuide up to the end of its loop
PeerBuildGuide ==
    /\ peerPc = "Init"
    /\ \E r \in AuthResponses, fetchOk \in BOOLEAN, page \in PeerPages :
        LET a == IF impl = "Guide" THEN authenticate(r) ELSE ZapAuthenticate(r)
            n == GuideSpan(scenario) \div windowHours
            l == PeerLoop(EmptyGuide, TRUE, n, page)
        IN  IF a.status = "ok" /\ fetchOk /\ l.status = "ok"
            THEN /\ peerGuide' = l.guide
                 /\ peerPc' = "Serializing"
            ELSE /\ peerPc' = "Failed"
                 /\ UNCHANGED peerGuide
    /\ UNCHANGED <<peerHist, formatVars, impl, scenario, histCfg, pc, failure,
                   failedAt, authResp, token, headendID, now, nowRead, startTime,
                   currentTime, endTime, data, addChannels, xmlGuide, fs, cutoff,
                   histFile, entries, removeFailed, faults, windows, outputBefore,
                   logins, writes>>

\* writeGuide of the second invocation
PeerWriteGuide ==
    /\ peerPc = "Serializing"
    /\ \E d \in FileDelays(scenario), outcome \in {"ok", "createFails", "encodeFails"} :
        /\ now' = now + d
        /\ CASE outcome = "ok" ->
                    /\ fs' = PutFile(fs, peerFile, NewFile(now', GuideContent(peerGuide)))
                    /\ peerPc' = "Rotating"
             [] outcome = "createFails" ->
                    /\ peerPc' = "Failed"
                    /\ UNCHANGED fs
             [] outcome = "encodeFails" ->
                    /\ fs' = PutFile(fs, peerFile, NewFile(now', PartialContent))
                    /\ peerPc' = "Failed"
    /\ UNCHANGED <<peerGuide, peerHist, formatVars, impl, scenario, histCfg, pc,
                   failure, failedAt, authResp, token, headendID, nowRead,
                   startTime, currentTime, endTime, data, addChannels, xmlGuide,
                   cutoff, histFile, entries, removeFailed, faults, windows,
                   outputBefore, logins, writes>>

\* the snapshot copy of the second invocation
PeerCopyHistorical ==
    /\ peerPc = "Rotating"
    /\ \E d \in FileDelays(scenario), outcome \in {"ok", "openFails", "copyFails"} :
        LET hist == HistFileName(peerFile, now)
        IN  /\ now' = now + d
            /\ peerHist' = hist
            /\ CASE outcome = "ok" /\ peerFile \in DOMAIN fs ->
                        /\ fs' = PutFile(fs, hist, NewFile(now', fs[peerFile].content))
                        /\ peerPc' = "Cleaning"
                 [] outcome = "copyFails" /\ peerFile \in DOMAIN fs ->
                        /\ fs' = PutFile(fs, hist, NewFile(now', PartialContent))
                        /\ peerPc' = "Failed"
                 [] OTHER ->
                        /\ peerPc' = "Failed"
                        /\ UNCHANGED fs
    /\ UNCHANGED <<peerGuide, formatVars, impl, scenario, histCfg, pc, failure,
                   failedAt, authResp, token, headendID, nowRead, startTime,
                   currentTime, endTime, data, addChannels, xmlGuide, cutoff,
                   histFile, entries, removeFailed, faults, windows, outputBefore,
                   logins, writes>>

\* the cleanup of the second invocation
PeerCleanHistorical ==
    /\ peerPc = "Cleaning"
    /\ \E d \in FileDelays(scenario), readDirOk \in BOOLEAN :
        LET cut == CutoffTime(now + d, HistoricalDays(impl, histCfg))
        IN  /\ now' = now + d
            /\ IF readDirOk
               THEN /\ fs' = [n \in DOMAIN fs \ Removed(fs, cut) |-> fs[n]]
                    /\ peerPc' = "Done"
               ELSE /\ peerPc' = "Failed"
                    /\ UNCHANGED fs
    /\ UNCHANGED <<peerGuide, peerHist, formatVars, impl, scenario, histCfg, pc,
                   failure, failedAt, authResp, token, headendID, nowRead,
                   startTime, currentTime, endTime, data, addChannels, xmlGuide,
                   cutoff, histFile, entries, removeFailed, faults, windows,
                   outputBefore, logins, writes>>

Next ==
    \/ Authenticate
    \/ FetchGuideData
    \/ NormalizeWindow
    \/ WriteGuide
    \/ CopyHistorical
    \/ CleanHistorical

Spec == Init /\ [][Next]_vars

SpecRotation == InitRotation /\ [][Next]_vars

SpecWindows == InitWindows /\ [][Next]_vars

\* one call of the timestamp formatter: formatDateTime in part_000,
\* Zap.BuildXMLDate in main.go
FormatDateTime ==
    /\ scenario = "format"
    /\ formatted = <<>>
    /\ formatted' = IF impl = "Guide" THEN formatDateTime(inTime)
                    ELSE BuildXMLDate(inTime)
    /\ UNCHANGED <<peerVars, inTime, impl, scenario, histCfg, pc, failure,
                   failedAt, authResp, token, headendID, now, nowRead, startTime,
                   currentTime, endTime, data, addChannels, xmlGuide, fs, cutoff,
                   histFile, entries, removeFailed, faults, windows, outputBefore,
                   logins, writes>>

NextFormat == FormatDateTime

SpecFormat == InitFormat /\ [][NextFormat]_vars

\* two invocations side by side
NextPair ==
    \/ Next
    \/ PeerBuildGuide
    \/ PeerWriteGuide
    \/ PeerCopyHistorical
    \/ PeerCleanHistorical

SpecPair == InitPair /\ [][NextPair]_vars

---------------------------------------------------------------------------
(* What the claims speak of.                                               *)

\* every window has been fetched and normalised
LoopDone ==
    \/ pc \in {"Serializing", "Rotating", "Cleaning", "Done"}
    \/ pc = "Failed" /\ failedAt \in {"write", "copy", "readdir"}

\* the last fetch made
LastWindow == windows[Len(windows)]

\* the last fetch succeeded and its page has been normalised
LastNormalized == windows # <<>> /\ LastWindow.ok /\ pc # "Normalizing"

RECURSIVE Flatten(_)
Flatten(ss) == IF ss = <<>> THEN <<>> ELSE Head(ss) \o Flatten(Tail(ss))

\* an event with a string startTime, a string endTime, a program object and
\* a string program.title
WellFormedEvent(e) ==
    /\ e.isMap
    /\ IsString(e.startTime)
    /\ IsString(e.endTime)
    /\ e.programIsMap
    /\ IsString(e.title)

\* a channel record whose events can be attributed to a channel
HasEvents(c) == c.isMap /\ IsString(c.channelId) /\ c.eventsIsArr

\* the programmes of the well-formed events of a page, in channel order and
\* then event order
PageProgrammes(page, lang) ==
    Flatten([i \in 1..Len(page.channels) |->
        LET c == page.channels[i]
        IN  IF ~HasEvents(c) THEN <<>>
            ELSE LET es == SelectSeq(c.events, WellFormedEvent)
                 IN  [j \in 1..Len(es) |->
                        buildProgramme(es[j], c.channelId.s, lang).prog]])

\* the same over the pages fetched, in the order of the fetches
RunProgrammes ==
    Flatten([k \in 1..Len(windows) |->
        IF windows[k].ok /\ windows[k].page.channelsIsArr
        THEN PageProgrammes(windows[k].page, Language(impl))
        ELSE <<>>])

\* the ids of the document's channels
ChannelIds == {xmlGuide.Channels[i].ID : i \in 1..Len(xmlGuide.Channels)}

---------------------------------------------------------------------------
(* C1.  A run whose authentication fails, or in which the fetch or the     *)
(* normalisation of any window fails, ends Failed with the output file as  *)
(* it was before the run (absent stays absent); the output file differs    *)
(* from what it was only once every window has been fetched and normalised *)
(* successfully.                                                           *)

OutputUntouched == FileAt(fs, outputFile) = outputBefore

C1_FailedRunLeavesOutput ==
    /\ faults \cap {"netError", "badJSON", "noToken"} # {}
          => pc = "Failed" /\ failedAt = "auth" /\ OutputUntouched
    /\ "fetch" \in faults
          => pc = "Failed" /\ failedAt = "fetch" /\ OutputUntouched
    /\ LastNormalized /\ ~LastWindow.page.channelsIsArr
          => pc = "Failed" /\ failedAt = "normalize" /\ OutputUntouched
    /\ pc = "Failed" /\ failedAt \in {"auth", "fetch", "normalize"}
          => OutputUntouched
    /\ ~OutputUntouched
          => /\ LoopDone /\ pc # "Serializing"
             /\ \A k \in 1..Len(windows) : windows[k].ok
             /\ Len(windows) * windowHours * secondsInHour >= endTime - startTime

\* a run that fails in the normalisation of its second window, over an
\* output file of an earlier run
C1_Witness ==
    /\ pc = "Failed" /\ failedAt = "normalize"
    /\ Len(windows) = 2
    /\ outputBefore # <<>>
    /\ OutputUntouched

(* C3.  After a successful run the programme list is the concatenation, in *)
(* the order the windows were processed, of each window's well-formed      *)
(* events in channel order and then event order: nothing is dropped as a   *)
(* duplicate and nothing is reordered, so an event that two windows hold   *)
(* is in the list twice.                                                   *)

C3_ProgrammesAppended == LoopDone => xmlGuide.Programmes = RunProgrammes

\* two windows that answered with the same page of two channels and three
\* events
C3_Witness ==
    /\ pc = "Done"
    /\ Len(windows) >= 2
    /\ windows[1].page = windows[2].page
    /\ Len(windows[1].page.channels) = 2
    /\ Len(xmlGuide.Programmes) >= 6
    /\ xmlGuide.Programmes[1] = xmlGuide.Programmes[4]

(* C2.  Channels are added once per run, from the first window whose       *)
(* channel list is not empty, and no later window changes the channel      *)
(* list: the channel list of a finished loop is the channel list of that   *)
(* window, so a channel that this window and a later one both hold is in   *)
(* the document once.                                                      *)

\* the channels of the records of a page
PageChannels(page) ==
    LET ms == SelectSeq(page.channels, LAMBDA c : c.isMap)
    IN  [i \in 1..Len(ms) |->
            IF impl = "Guide" THEN GuideChannel(ms[i]) ELSE BuildChannelXML(ms[i])]

HasChannels(k) ==
    /\ windows[k].ok
    /\ windows[k].page.channelsIsArr
    /\ PageChannels(windows[k].page) # <<>>

\* the channel list of the first window that has one
FirstChannels ==
    IF \E k \in 1..Len(windows) : HasChannels(k)
    THEN PageChannels(windows[
            CHOOSE k \in 1..Len(windows) :
                HasChannels(k) /\ \A j \in 1..(k - 1) : ~HasChannels(j)].page)
    ELSE <<>>

C2_ChannelsFromFirstNonEmptyWindow == LoopDone => xmlGuide.Channels = FirstChannels

\* C2 as it holds of Guide.BuildGuide alone
C2_InGuide == impl = "Guide" => C2_ChannelsFromFirstNonEmptyWindow

\* C2, the frame part: once the channel list is not empty, no step changes it
C2_ChannelsNeverChange ==
    [][xmlGuide.Channels # <<>> => xmlGuide'.Channels = xmlGuide.Channels]_vars

(* C4.  An event that lacks a string startTime, a string endTime, a        *)
(* program object or a string program.title is skipped on its own: after   *)
(* the normalisation of a page whose only defects are such events the run  *)
(* has not failed and the programme list holds every other event.          *)

OnlyEventDefects(page) ==
    /\ page.channelsIsArr
    /\ \A i \in 1..Len(page.channels) :
        LET c == page.channels[i]
        IN  /\ c.isMap
            /\ \A k \in 1..Len(ZapChannelFields(c)) : IsString(ZapChannelFields(c)[k])
            /\ c.eventsIsArr
            /\ \A j \in 1..Len(c.events) : c.events[j].isMap

C4_MalformedEventSkipped ==
    LastNormalized /\ OnlyEventDefects(LastWindow.page)
        => failedAt # "normalize" /\ xmlGuide.Programmes = RunProgrammes

\* C4 as it holds of Guide.processProgrammes alone
C4_InGuide == impl = "Guide" => C4_MalformedEventSkipped

(* C5.  A channel record that lacks channelId, channelNo or callSign is    *)
(* left out of the channel list without raising: after the normalisation   *)
(* of a page whose only defects are such records the run has neither       *)
(* aborted nor crashed, and the channel list the page populated holds the  *)
(* page's other records.                                                   *)

CompleteChannel(c) ==
    IsString(c.channelId) /\ IsString(c.channelNo) /\ IsString(c.callSign)

OnlyChannelDefects(page) ==
    /\ page.channelsIsArr
    /\ \A i \in 1..Len(page.channels) :
        LET c == page.channels[i]
        IN  /\ c.isMap
            /\ IsString(c.affiliateName) /\ IsString(c.thumbnail)
            /\ c.eventsIsArr
            /\ \A j \in 1..Len(c.events) : WellFormedEvent(c.events[j])

C5_IncompleteChannelSkipped ==
    LastNormalized /\ OnlyChannelDefects(LastWindow.page)
        => /\ failedAt # "normalize"
           /\ Len(windows) = 1 =>
                xmlGuide.Channels =
                    PageChannels(Page(SelectSeq(LastWindow.page.channels,
                                                CompleteChannel)))

(* C6.  The document never holds two channels with the same id, also when  *)
(* the channels array of a page repeats a channelId.                       *)

C6_ChannelIdsUnique ==
    \A i, j \in 1..Len(xmlGuide.Channels) :
        i # j => xmlGuide.Channels[i].ID # xmlGuide.Channels[j].ID

(* C7.  In every state of a run the channel attribute of every programme   *)
(* is the id of a channel of the document's channel list.                  *)

C7_ProgrammeChannelKnown ==
    \A i \in 1..Len(xmlGuide.Programmes) :
        xmlGuide.Programmes[i].Channel \in ChannelIds

(* C8.  The cleanup deletes a file of the output directory exactly when it *)
(* is a regular file with the extension .xmltv whose modification time is  *)
(* before now minus the retention days, where the retention is the         *)
(* configured historicalGuideDays and 14 days when none is configured; a   *)
(* file with another extension and a directory are never deleted.  (Of a   *)
(* file that cannot be examined or removed only the latter is claimed.)    *)

ClaimedRetentionDays == IF histCfg.set THEN histCfg.days ELSE 14

C8_DeletesExactlyTheOldGuides ==
    pc = "Done" =>
        \A n \in DOMAIN entries :
            LET f == entries[n]
                old == f.modTime < now - ClaimedRetentionDays * 86400
            IN  /\ n \notin DOMAIN fs => ~f.isDir /\ n.ext = "xmltv"
                /\ f.removable /\ f.statOk
                      => (n \notin DOMAIN fs <=> ~f.isDir /\ n.ext = "xmltv" /\ old)

\* C8 as it holds of Guide.cleanHistoricalFiles alone
C8_InGuide == impl = "Guide" => C8_DeletesExactlyTheOldGuides

\* C8 as it holds of both when historicalGuideDays is configured
C8_WhenConfigured == histCfg.set => C8_DeletesExactlyTheOldGuides

(* C9 as claimed.  A failure inside the rotation step (the copy fails, the *)
(* directory cannot be read, a deletion fails) does not end the run        *)
(* Failed, and the primary guide file stays in place with the content      *)
(* written.                                                                *)

PrimaryInPlace ==
    /\ outputFile \in DOMAIN fs
    /\ fs[outputFile].content = GuideContent(xmlGuide)

WindowsStride ==
    /\ \A k \in 1..Len(windows) :
          /\ windows[k].time = windows[1].time + (k - 1) * 10800
          /\ windows[k].timespan = 3
    /\ windows # <<>> =>
          /\ windows[1].time % 1800 = 0
          /\ windows[1].time <= nowRead - 86400
          /\ nowRead - 86400 < windows[1].time + 1800

C10_WindowsReachFourteenDays ==
    /\ WindowsStride
    /\ LoopDone => LastWindow.time + 10800 >= nowRead + 14 * 86400

(* C10 as amended.  The windows of a run start at s + k * 10800 for k = 0, *)
(* 1, ..., 111, where s is now minus one day rounded down to a multiple of *)
(* 1800; each is three hours wide; together they cover the 336 hours from  *)
(* s to s + 14 days, which ends at most 13 days after now and less than    *)
(* half an hour earlier than that.                                         *)

C10_WindowsCoverGuideHours ==
    /\ WindowsStride
    /\ LoopDone =>
          /\ Len(windows) = 112
          /\ LastWindow.time + 10800 = windows[1].time + 336 * 3600
          /\ LastWindow.time + 10800 <= nowRead + 13 * 86400
          /\ LastWindow.time + 10800 > nowRead + 13 * 86400 - 1800

\* a finished run that started off the half hour
C10_Witness ==
    /\ pc = "Done"
    /\ Len(windows) = 112
    /\ nowRead % 1800 # 0

(* C11.  Two invocations with distinct output paths in one directory are   *)
(* independent under every interleaving: no step of one creates,           *)
(* overwrites or deletes the primary output file of the other or the       *)
(* snapshot the other has created, and each that reaches Done leaves its   *)
(* own complete guide file.                                                *)

\* a step of the first invocation leaves the second one's files alone, and
\* the other way round
C11_OtherFilesUntouched ==
    /\ pc' # pc =>
          /\ FileAt(fs', peerFile) = FileAt(fs, peerFile)
          /\ FileAt(fs', peerHist) = FileAt(fs, peerHist)
    /\ peerPc' # peerPc =>
          /\ FileAt(fs', outputFile) = FileAt(fs, outputFile)
          /\ FileAt(fs', histFile) = FileAt(fs, histFile)

C11_DoneLeavesGuide ==
    /\ pc = "Done" =>
          /\ outputFile \in DOMAIN fs
          /\ fs[outputFile].content = GuideContent(xmlGuide)
    /\ peerPc = "Done" =>
          /\ peerFile \in DOMAIN fs
          /\ fs[peerFile].content = GuideContent(peerGuide)

C11_InvocationsIndependent ==
    [][C11_OtherFilesUntouched]_vars /\ []C11_DoneLeavesGuide

\* the first part on its own
C11_NoStepTouchesTheOther == [][C11_OtherFilesUntouched]_vars

(* C12.  Timestamp formatting removes every "-", ":" and "T" and replaces  *)
(* the trailing "Z" with " +0000": for an input of the shape               *)
(* YYYY-MM-DDThh:mm:ssZ the result is the 14 digits of the input in order  *)
(* followed by " +0000", so 2024-01-02T15:04:05Z gives                     *)
(* 20240102150405 +0000; the result is a function of the input alone.      *)

ExampleStamp ==
    <<"2", "0", "2", "4", "-", "0", "1", "-", "0", "2", "T",
      "1", "5", ":", "0", "4", ":", "0", "5", "Z">>

ExampleFormatted ==
    <<"2", "0", "2", "4", "0", "1", "0", "2", "1", "5", "0", "4", "0", "5",
      " ", "+", "0", "0", "0", "0">>

DigitsOf(s) == SelectSeq(s, LAMBDA c : c \in Digits)

C12_TimestampFormatted ==
    formatted # <<>> =>
        /\ Len(DigitsOf(inTime)) = 14
        /\ formatted = DigitsOf(inTime) \o <<" ", "+", "0", "0", "0", "0">>
        /\ inTime = ExampleStamp => formatted = ExampleFormatted

\* the example of the specification, formatted by formatDateTime
C12_Witness ==
    /\ impl = "Guide"
    /\ inTime = ExampleStamp
    /\ formatted = ExampleFormatted

(* C13.  Every programme of the document has a description: the event's   *)
(* shortDesc when that is a non-empty string, and the literal              *)
(* "Unavailable" when shortDesc is absent, not a string, or empty.         *)

\* the description the claim gives an event
ClaimedDescription(e) ==
    IF e.shortDesc.t = "string" /\ Len(e.shortDesc.s) > 0
    THEN e.shortDesc.s
    ELSE <<"U", "n", "a", "v", "a", "i", "l", "a", "b", "l", "e">>

\* the same for the well-formed events of a page, in the order of the page
PageDescriptions(page) ==
    Flatten([i \in 1..Len(page.channels) |->
        LET c == page.channels[i]
        IN  IF ~HasEvents(c) THEN <<>>
            ELSE LET es == SelectSeq(c.events, WellFormedEvent)
                 IN  [j \in 1..Len(es) |-> ClaimedDescription(es[j])]])

RunDescriptions ==
    Flatten([k \in 1..Len(windows) |->
        IF windows[k].ok /\ windows[k].page.channelsIsArr
        THEN PageDescriptions(windows[k].page)
        ELSE <<>>])

C13_DescriptionDefaulted ==
    /\ \A i \in 1..Len(xmlGuide.Programmes) :
          xmlGuide.Programmes[i].Desc.Text # <<>>
    /\ LoopDone =>
          [i \in 1..Len(xmlGuide.Programmes) |-> xmlGuide.Programmes[i].Desc.Text]
              = RunDescriptions

\* a finished run over a page with a numeric, an empty and a filled
\* shortDesc, and a page with an event that has none
C13_Witness ==
    /\ pc = "Done"
    /\ Len(windows) = 2
    /\ windows[1].page = Page(<<chA(<<evNumDesc, evEmptyDesc, evShow>>)>>)
    /\ windows[2].page = PlainPage
    /\ Len(xmlGuide.Programmes) = 4

(* C14.  The channel built from a record with channelId, channelNo and     *)
(* callSign has the id channelId and the display names channelNo, a space  *)
(* and callSign; channelNo; callSign, in that order, with the affiliate    *)
(* name as a fourth only when the record has one.  It has an icon exactly  *)
(* when the record has a thumbnail, and the icon's URL is "http://" and    *)
(* the thumbnail without its query string and its leading slashes.  The    *)
(* record 5.1, 5, WABC without thumbnail gives "5 WABC", "5", "WABC" and   *)
(* no icon.                                                                *)

\* th without what follows its first "?" and without its leading slashes
ClaimedIconPath(th) ==
    LET marks == {i \in 1..Len(th) : th[i] = "?"}
        q == IF marks = {} THEN Len(th) + 1
             ELSE CHOOSE i \in marks : \A j \in marks : i <= j
        body == SubSeq(th, 1, q - 1)
        rest == {i \in 1..Len(body) : body[i] # "/"}
        f == IF rest = {} THEN Len(body) + 1
             ELSE CHOOSE i \in rest : \A j \in rest : i <= j
    IN  SubSeq(body, f, Len(body))

\* ch is the channel the claim describes for the record c
ClaimedChannel(ch, c) ==
    /\ ch.ID = c.channelId.s
    /\ Len(ch.DisplayName) \in {3, 4}
    /\ SubSeq(ch.DisplayName, 1, 3)
          = <<c.channelNo.s \o <<" ">> \o c.callSign.s, c.channelNo.s, c.callSign.s>>
    /\ Len(ch.DisplayName) = 4 => c.affiliateName.t # "absent"
    /\ ch.Icon # <<>> <=> c.thumbnail.t # "absent"
    /\ ch.Icon # <<>> =>
          ch.Icon[1].Src = <<"h", "t", "t", "p", ":", "/", "/">>
                              \o ClaimedIconPath(c.thumbnail.s)

\* the channel of the record 5.1, 5, WABC
PlainChannel ==
    [ID |-> <<"5", ".", "1">>,
     DisplayName |-> << <<"5", " ", "W", "A", "B", "C">>, <<"5">>,
                        <<"W", "A", "B", "C">> >>,
     Icon |-> <<>>]

\* the first window has been normalised and every record of its page has
\* the three fields
ChannelsBuilt ==
    /\ Len(windows) = 1
    /\ LastNormalized
    /\ LastWindow.page.channelsIsArr
    /\ \A i \in 1..Len(LastWindow.page.channels) :
          /\ LastWindow.page.channels[i].isMap
          /\ CompleteChannel(LastWindow.page.channels[i])

C14_ChannelBuilt ==
    ChannelsBuilt =>
        /\ Len(xmlGuide.Channels) = Len(LastWindow.page.channels)
        /\ \A i \in 1..Len(xmlGuide.Channels) :
              ClaimedChannel(xmlGuide.Channels[i], LastWindow.page.channels[i])
        /\ LastWindow.page = Page(<<chPlain(<<evNews>>)>>)
              => xmlGuide.Channels = <<PlainChannel>>

\* C14 as it holds of Guide.processChannels alone
C14_InGuide == impl = "Guide" => C14_ChannelBuilt

\* C14 as it holds of Zap.BuildChannelXML for records that have an
\* affiliate name and a thumbnail
C14_InZapWithAllFields ==
    /\ impl = "Zap"
    /\ ChannelsBuilt
    /\ \A i \in 1..Len(LastWindow.page.channels) :
          /\ IsString(LastWindow.page.channels[i].affiliateName)
          /\ IsString(LastWindow.page.channels[i].thumbnail)
    => C14_ChannelBuilt

(* C15.  For every retention of zero days or more, a run that reaches Done *)
(* leaves the primary output file in place with the full guide and a       *)
(* timestamped snapshot with the same bytes: the cleanup that follows the  *)
(* copy deletes neither the file just written nor the snapshot just made.  *)

C15_DoneKeepsGuideAndSnapshot ==
    pc = "Done" =>
        /\ outputFile \in DOMAIN fs
        /\ fs[outputFile].content = GuideContent(xmlGuide)
        /\ histFile # outputFile
        /\ histFile \in DOMAIN fs
        /\ fs[histFile].content = GuideContent(xmlGuide)

\* C15 as it holds of both programs when the retention is a day or more
C15_WithRetention ==
    HistoricalDays(impl, histCfg) >= 1 => C15_DoneKeepsGuideAndSnapshot

(* C16.  The steps of a run come in the order Init, Authenticating, then   *)
(* for each window in increasing start time FetchingWindow and             *)
(* Normalizing, then Serializing, Rotating, Done.  No window is fetched    *)
(* before the login has succeeded; window i+1 is not fetched before window *)
(* i has been normalised; the output file is written exactly once, after   *)
(* the last window; the rotation starts only after that write succeeded.   *)

\* the windows normalised so far
Normalized == (currentTime - startTime) \div 10800

\* the rotation has started
RotationStarted ==
    \/ pc \in {"Rotating", "Cleaning", "Done"}
    \/ pc = "Failed" /\ failedAt \in {"copy", "readdir"}
    \/ histFile # outputFile

C16_Step ==
    /\ pc = "Init" => pc' \in {"FetchingWindow", "Failed"}
    /\ pc = "FetchingWindow" => pc' \in {"Normalizing", "Failed"}
    /\ pc = "Normalizing" => pc' \in {"FetchingWindow", "Serializing", "Failed"}
    /\ pc = "Serializing" => pc' \in {"Rotating", "Failed"}
    /\ pc = "Rotating" => pc' \in {"Cleaning", "Failed"}
    /\ pc = "Cleaning" => pc' \in {"Done", "Failed"}
    /\ pc \notin {"Done", "Failed"}
    /\ windows' # windows =>
          /\ pc = "FetchingWindow"
          /\ Normalized = Len(windows)
          /\ Len(windows') = Len(windows) + 1
    /\ writes' # writes =>
          /\ pc = "Serializing"
          /\ writes = 0
          /\ currentTime >= endTime
          /\ Normalized = Len(windows)
    /\ pc = "Normalizing" /\ pc' = "Serializing" => currentTime' >= endTime

C16_State ==
    /\ windows # <<>> =>
          /\ logins = 1
          /\ authResp \notin {"none", "netError", "badJSON", "noToken"}
          /\ failedAt # "auth"
    /\ \A k \in 1..(Len(windows) - 1) : windows[k].time < windows[k + 1].time
    /\ Len(windows) - Normalized \in {0, 1}
    /\ writes <= 1
    /\ writes = 1 => LoopDone /\ pc # "Serializing"
    /\ RotationStarted =>
          /\ writes = 1
          /\ faults \cap {"createFails", "encodeFails"} = {}
    /\ pc = "Done" => writes = 1 /\ RotationStarted

C16_StepsInOrder == [][C16_Step]_vars /\ []C16_State

\* a run of two windows that has written its guide and finished
C16_Witness ==
    /\ pc = "Done"
    /\ Len(windows) = 2
    /\ Normalized = 2
    /\ writes = 1

(* C17.  The login is attempted exactly once per run and never retried.    *)
(* When the login call errors, the response is not valid JSON, or the      *)
(* token is absent or not a string, authenticate reports an error value    *)
(* and does not crash, the run ends Failed and no window is fetched.       *)
(* Every fetch of a run carries the token of the run's one successful      *)
(* login.                                                                  *)

C17_LoginOnceErrorsReported ==
    /\ logins <= 1
    /\ pc # "Init" => logins = 1
    /\ authResp \in {"netError", "badJSON", "noToken"} =>
          /\ pc = "Failed"
          /\ failure = "error"
          /\ windows = <<>>
    /\ \A k \in 1..Len(windows) :
          /\ windows[k].token = token
          /\ windows[k].token = "tok"

\* C17 as it holds of Guide.authenticate alone
C17_InGuide == impl = "Guide" => C17_LoginOnceErrorsReported

\* C17 but for the crash: in both programs a failed login is never retried
\* and no window is fetched after it
C17_NoRetryNoFetch ==
    /\ logins <= 1
    /\ authResp \in {"netError", "badJSON", "noToken"} =>
          pc = "Failed" /\ windows = <<>>
    /\ \A k \in 1..Len(windows) : windows[k].token = token

====
